---- MODULE Spec2Model ----
(***************************************************************************)
(* Deduplication & clustering engine of compiler-news                      *)
(* (pipelines/dedupe_cluster.py) together with the two tables it touches   *)
(* (articles_clean, clusters), the extraction step that fills              *)
(* articles_clean and the summarizer that fills clusters.summary.          *)
(*                                                                         *)
(* One run of main() is a process r with a program counter pc[r]:          *)
(*   idle -> sample -> vectorize -> similarity -> group -> persist         *)
(*        -> report -> done                                                *)
(* with the exits "failed" (an exception left main) and "aborted" (the     *)
(* scheduler killed the task).  All INSERTs of a run belong to one         *)
(* database transaction (txn[r]) that is committed once, after the last    *)
(* INSERT (dedupe_cluster.py:130).                                         *)
(***************************************************************************)
EXTENDS Integers, Sequences, FiniteSets, TLC

\* ------------------------------------------------------------------ bounds
NumDocs == 3          \* size of the universe of document ids
MaxStarts == 2        \* number of times main() is started
MaxN == 3             \* largest sample the grouper is checked on alone

Docs == 1..NumDocs

\* default_args of the DAG and its chain t1 >> t2 >> t3 >> t4 >> t5
retries == 1
TaskIds == <<"ingest_rss", "extract", "cluster", "summarize", "publish">>
Tasks == 1..Len(TaskIds)
Task(name) == CHOOSE t \in Tasks : TaskIds[t] = name
NoDag == [t \in Tasks |-> [state |-> "none", try |-> 0]]
Runs == {"r1", "r2"}          \* processes able to execute main()
SeqRuns == {"r1"}             \* the one worker of the daily schedule

NULL == "NULL"                \* SQL NULL / Python None
EmptyJson == "{}"             \* json.dumps({})
NoRows == <<>>

\* CLUSTER_LIMIT and CLUSTER_SIM_TH are read from the environment of the
\* deployment; similarities and thresholds are in hundredths.
Limits == {2, 3}
Thresholds == {45}            \* the default, "0.45"
SimLevels == {30, 60}         \* a pair below and a pair above the threshold
\* The computed cosine of two vectors of the same direction: 1.0, or one
\* rounding error below it (no threshold of the model lies in between).
UnitLevels == {99, 100}
\* TFIDF_NGRAM_MIN, TFIDF_NGRAM_MAX: the default and a range sklearn rejects.
NgramRanges == {<<1, 2>>, <<2, 1>>}

\* The inputs the grouper is checked on alone: any symmetric matrix over
\* these levels, any of these thresholds.
GroupLevels == {0, 30, 60, 70, 100}
GroupThresholds == {0, 50, 60, 100}

\* articles_clean.ts of a document (two documents may carry the same ts).
Ts(d) == (d + 1) \div 2

\* The cleaned article of document d: the first one has no title.
Article(d) ==
  [title |-> IF d = 1 THEN NULL ELSE "llvm", text |-> "pass", ts |-> Ts(d)]

VARIABLES
  articles_clean,   \* table: id -> [title, text, ts]
  clusters,         \* table: id -> [cluster_id, title, summary], committed rows
  pc,               \* pc[r]: where run r stands in main()
  CLUSTER_LIMIT,    \* the configured sample size
  SIM_THRESHOLD,    \* the configured threshold, in hundredths
  TFIDF_NGRAM,      \* the configured (TFIDF_NGRAM_MIN, TFIDF_NGRAM_MAX)
  rows,             \* rows[r]: the fetched sample, a list of (id, title, text)
  sim,              \* sim[r][i][j]: cosine similarity matrix of the sample
  groups,           \* groups[r]: list of lists of sample indices
  seen,             \* seen[r]: set of sample indices
  i,                \* i[r]: index of the outer grouping loop
  pos,              \* pos[r]: [g, k], position of the persistence loops
  txn,              \* txn[r]: rows inserted by r's open transaction
  attempted,        \* attempted[r]: the INSERTs r executed, as (id, rowcount,
                    \*   whether no other live run had executed one for id)
  created,          \* created[r]
  report,           \* report[r]: the kv_table of step 6
  before,           \* before[r]: clusters as it was when r started
  prev,             \* the run that ended last, if nothing happened since
  starts,           \* number of runs started so far
  dag               \* dag[t]: state and try number of task t of the DAG run

vars == <<articles_clean, clusters, pc, CLUSTER_LIMIT, SIM_THRESHOLD, TFIDF_NGRAM, rows, sim,
          groups, seen, i, pos, txn, attempted, created, report, before, prev, starts,
          dag>>

config == <<CLUSTER_LIMIT, SIM_THRESHOLD, TFIDF_NGRAM>>

localVars == <<config, rows, sim, groups, seen, i, pos,
               txn, attempted, created, report, before>>

\* ----------------------------------------------------------- Python idiom
At(list, k) == list[k + 1]                    \* list[k], 0-based
Range(lo, hi) == lo..(hi - 1)                 \* range(lo, hi)
OrEmpty(v) == IF v = NULL THEN "" ELSE v      \* v or ""
Elems(list) == {list[n] : n \in 1..Len(list)}
Min(a, b) == IF a < b THEN a ELSE b


\* ------------------------------------------------------------ 1) sampling
\* SampleChoices for ORDER BY ts (ascending): the oldest documents.
SampleChoices_Oldest(limit) ==
  LET A == DOMAIN articles_clean
      n == Min(limit, Cardinality(A))
  IN  { s \in [1..n -> A] :
          /\ \A a, b \in 1..n :
               a < b => s[a] # s[b] /\ articles_clean[s[a]].ts <= articles_clean[s[b]].ts
          /\ \A d \in A \ {s[a] : a \in 1..n} :
               \A a \in 1..n : articles_clean[d].ts >= articles_clean[s[a]].ts }

\* SELECT id, title, text FROM articles_clean ORDER BY ts DESC LIMIT limit:
\* every list the query may return (rows of equal ts come in any order).
SampleChoices(limit) ==
  LET A == DOMAIN articles_clean
      n == Min(limit, Cardinality(A))
  IN  { s \in [1..n -> A] :
          /\ \A a, b \in 1..n :
               a < b => s[a] # s[b] /\ articles_clean[s[a]].ts >= articles_clean[s[b]].ts
          /\ \A d \in A \ {s[a] : a \in 1..n} :
               \A a \in 1..n : articles_clean[d].ts <= articles_clean[s[a]].ts }

FetchAll(s) ==
  [n \in 1..Len(s) |->
     [id |-> s[n], title |-> articles_clean[s[n]].title,
      text |-> articles_clean[s[n]].text]]

ids(r) == [n \in 1..Len(rows[r]) |-> rows[r][n].id]
\* titles without the `or ""`.
titles_Raw(r) == [n \in 1..Len(rows[r]) |-> rows[r][n].title]
titles(r) == [n \in 1..Len(rows[r]) |-> OrEmpty(rows[r][n].title)]
texts(r) == [n \in 1..Len(rows[r]) |-> OrEmpty(rows[r][n].text)]

\* ------------------------------------------------------- 2) vectorization
\* The word tokens TfidfVectorizer's analyzer keeps of a string of the text
\* universe, in order (lower-cased, English stop words dropped).
Tokens(s) ==
  CASE s = "" -> <<>>
    [] s = "llvm" -> <<"llvm">>
    [] s = "pass" -> <<"pass">>
    [] s = "llvm pass" -> <<"llvm", "pass">>
    [] s = "the" -> <<>>
    [] OTHER -> <<>>

\* docs[k] = (titles[k] + "\n" + texts[k]).strip(), as its token list
docs(r) == [n \in 1..Len(rows[r]) |-> Tokens(titles(r)[n]) \o Tokens(texts(r)[n])]

\* The n-grams of a token list, and the term counts of a document for
\* ngram_range = TFIDF_NGRAM (the TF-IDF weight of a term is its count
\* times a positive factor that is the same for all documents of the
\* sample; max_features is beyond the terms of the model).
NGrams(toks, n) == {SubSeq(toks, a, a + n - 1) : a \in 1..(Len(toks) - n + 1)}
Vector(toks) ==
  [term \in UNION {NGrams(toks, n) : n \in TFIDF_NGRAM[1]..TFIDF_NGRAM[2]} |->
     Cardinality({a \in 1..Len(toks) :
                    a + Len(term) - 1 <= Len(toks) /\ SubSeq(toks, a, a + Len(term) - 1) = term})]
\* X = vec.fit_transform(docs), row by row
Vectors(r) == [n \in 1..Len(rows[r]) |-> Vector(docs(r)[n])]

Vocabulary(r) == UNION {DOMAIN Vectors(r)[n] : n \in 1..Len(rows[r])}

\* Two weighted vectors have the same direction (their L2-normalised rows
\* are equal).
Parallel(v, w) ==
  /\ DOMAIN v = DOMAIN w
  /\ \A s, u \in DOMAIN v : v[s] * w[u] = v[u] * w[s]

\* ----------------------------------------------------------- 3) similarity
\* SimChoices with the rows not normalised: any pair may reach 1.0.
SimChoices_Unnormalised(X) ==
  LET N == Len(X)
      P == {p \in Range(0, N) \X Range(0, N) : p[1] < p[2]}
  IN  { [a \in Range(0, N) |-> [b \in Range(0, N) |->
            IF a = b THEN 100
            ELSE IF a < b THEN f[<<a, b>>] ELSE f[<<b, a>>]]] :
        f \in [P -> SimLevels \union UnitLevels] }

\* SimChoices with the convention "a document has similarity 1 with
\* itself" applied to every document, the all-zero ones included.
SimChoices_UnitDiagonal(X) ==
  LET N == Len(X)
      P == {p \in Range(0, N) \X Range(0, N) :
              p[1] < p[2] /\ DOMAIN At(X, p[1]) \intersect DOMAIN At(X, p[2]) # {}}
      Levels(p) == IF Parallel(At(X, p[1]), At(X, p[2])) THEN UnitLevels ELSE SimLevels
  IN  { [a \in Range(0, N) |-> [b \in Range(0, N) |->
            IF a = b THEN 100
            ELSE IF <<a, b>> \in P THEN f[<<a, b>>]
            ELSE IF <<b, a>> \in P THEN f[<<b, a>>]
            ELSE 0]] : f \in {h \in [P -> SimLevels \union UnitLevels] :
                                \A p \in P : h[p] \in Levels(p)} }

\* SimChoices with two all-zero rows, being equal, given similarity 1.
SimChoices_EmptyAlike(X) ==
  LET N == Len(X)
      P == {p \in Range(0, N) \X Range(0, N) :
              p[1] < p[2] /\ DOMAIN At(X, p[1]) \intersect DOMAIN At(X, p[2]) # {}}
      D == {At(X, a) : a \in Range(0, N)} \ {<<>>}
      Levels(p) == IF Parallel(At(X, p[1]), At(X, p[2])) THEN UnitLevels ELSE SimLevels
  IN  { [a \in Range(0, N) |-> [b \in Range(0, N) |->
            IF a = b THEN (IF At(X, a) \in D THEN u[At(X, a)] ELSE 0)
            ELSE IF <<a, b>> \in P THEN f[<<a, b>>]
            ELSE IF <<b, a>> \in P THEN f[<<b, a>>]
            ELSE IF DOMAIN At(X, a) = {} /\ DOMAIN At(X, b) = {} THEN 100
            ELSE 0]] : f \in {h \in [P -> SimLevels \union UnitLevels] :
                                \A p \in P : h[p] \in Levels(p)},
                       u \in [D -> UnitLevels] }

\* cosine_similarity(X): rows are L2-normalised (an all-zero row stays
\* all-zero) and multiplied, so the matrix is symmetric, a pair with a zero
\* vector or with no common term has 0, a zero vector has 0 with itself, a
\* non-zero vector has 1 up to rounding with itself (the same value for
\* equal rows) and with a vector of the same direction.  The weights of the
\* other overlapping pairs are not modelled: such a pair may have any level
\* below 1.
SimChoices(X) ==
  LET N == Len(X)
      P == {p \in Range(0, N) \X Range(0, N) :
              p[1] < p[2] /\ DOMAIN At(X, p[1]) \intersect DOMAIN At(X, p[2]) # {}}
      D == {At(X, a) : a \in Range(0, N)} \ {<<>>}
      Levels(p) == IF Parallel(At(X, p[1]), At(X, p[2])) THEN UnitLevels ELSE SimLevels
  IN  { [a \in Range(0, N) |-> [b \in Range(0, N) |->
            IF a = b THEN (IF At(X, a) \in D THEN u[At(X, a)] ELSE 0)
            ELSE IF <<a, b>> \in P THEN f[<<a, b>>]
            ELSE IF <<b, a>> \in P THEN f[<<b, a>>]
            ELSE 0]] : f \in {h \in [P -> SimLevels \union UnitLevels] :
                                \A p \in P : h[p] \in Levels(p)},
                       u \in [D -> UnitLevels] }

\* ------------------------------------------------------------- 4) grouping
\* The inner loop `for j in range(i + 1, len(rows))` from j on, with the
\* group g and the set seen built so far.
\* Variants of the inner loop with one slip each.
\* ... `seen.add(j)` left out:
RECURSIVE Scan_NoMark(_, _, _, _, _, _, _)
Scan_NoMark(m, th, N, lead, j, g, sn) ==
  IF j >= N THEN [g |-> g, seen |-> sn]
  ELSE IF j \in sn THEN Scan_NoMark(m, th, N, lead, j + 1, g, sn)
  ELSE IF m[lead][j] >= th
       THEN Scan_NoMark(m, th, N, lead, j + 1, Append(g, j), sn)
       ELSE Scan_NoMark(m, th, N, lead, j + 1, g, sn)

\* ... `>` for `>=`:
RECURSIVE Scan_Strict(_, _, _, _, _, _, _)
Scan_Strict(m, th, N, lead, j, g, sn) ==
  IF j >= N THEN [g |-> g, seen |-> sn]
  ELSE IF j \in sn THEN Scan_Strict(m, th, N, lead, j + 1, g, sn)
  ELSE IF m[lead][j] > th
       THEN Scan_Strict(m, th, N, lead, j + 1, Append(g, j), sn \union {j})
       ELSE Scan_Strict(m, th, N, lead, j + 1, g, sn)

\* ... j compared with every member of g, not with the leader alone:
RECURSIVE Scan_Transitive(_, _, _, _, _, _, _)
Scan_Transitive(m, th, N, lead, j, g, sn) ==
  IF j >= N THEN [g |-> g, seen |-> sn]
  ELSE IF j \in sn THEN Scan_Transitive(m, th, N, lead, j + 1, g, sn)
  ELSE IF \E n \in 1..Len(g) : m[g[n]][j] >= th
       THEN Scan_Transitive(m, th, N, lead, j + 1, Append(g, j), sn \union {j})
       ELSE Scan_Transitive(m, th, N, lead, j + 1, g, sn)

\* ... a pair of similarity 0 never grouped:
RECURSIVE Scan_Positive(_, _, _, _, _, _, _)
Scan_Positive(m, th, N, lead, j, g, sn) ==
  IF j >= N THEN [g |-> g, seen |-> sn]
  ELSE IF j \in sn THEN Scan_Positive(m, th, N, lead, j + 1, g, sn)
  ELSE IF m[lead][j] >= th /\ m[lead][j] > 0
       THEN Scan_Positive(m, th, N, lead, j + 1, Append(g, j), sn \union {j})
       ELSE Scan_Positive(m, th, N, lead, j + 1, g, sn)

\* ... j compared with the last member of the group (a chain):
RECURSIVE Scan_Chain(_, _, _, _, _, _, _)
Scan_Chain(m, th, N, lead, j, g, sn) ==
  IF j >= N THEN [g |-> g, seen |-> sn]
  ELSE IF j \in sn THEN Scan_Chain(m, th, N, lead, j + 1, g, sn)
  ELSE IF m[g[Len(g)]][j] >= th
       THEN Scan_Chain(m, th, N, lead, j + 1, Append(g, j), sn \union {j})
       ELSE Scan_Chain(m, th, N, lead, j + 1, g, sn)

\* ... `range(i + 2, len(rows))`: the position after the leader skipped:
RECURSIVE Scan_SkipNext(_, _, _, _, _, _, _)
Scan_SkipNext(m, th, N, lead, j, g, sn) ==
  IF j >= N THEN [g |-> g, seen |-> sn]
  ELSE IF j \in sn \/ j = lead + 1 THEN Scan_SkipNext(m, th, N, lead, j + 1, g, sn)
  ELSE IF m[lead][j] >= th
       THEN Scan_SkipNext(m, th, N, lead, j + 1, Append(g, j), sn \union {j})
       ELSE Scan_SkipNext(m, th, N, lead, j + 1, g, sn)

\* ... `g.insert(0, j)` for `g.append(j)`:
RECURSIVE Scan_Prepend(_, _, _, _, _, _, _)
Scan_Prepend(m, th, N, lead, j, g, sn) ==
  IF j >= N THEN [g |-> g, seen |-> sn]
  ELSE IF j \in sn THEN Scan_Prepend(m, th, N, lead, j + 1, g, sn)
  ELSE IF m[lead][j] >= th
       THEN Scan_Prepend(m, th, N, lead, j + 1, <<j>> \o g, sn \union {j})
       ELSE Scan_Prepend(m, th, N, lead, j + 1, g, sn)

RECURSIVE Scan(_, _, _, _, _, _, _)
Scan(m, th, N, lead, j, g, sn) ==
  IF j >= N THEN [g |-> g, seen |-> sn]
  ELSE IF j \in sn THEN Scan(m, th, N, lead, j + 1, g, sn)
  ELSE IF m[lead][j] >= th
       THEN Scan(m, th, N, lead, j + 1, Append(g, j), sn \union {j})
       ELSE Scan(m, th, N, lead, j + 1, g, sn)

\* ---------------------------------------------------------- 5) persistence
\* util.sha1 and the [:16] cut, taken as collision-free on the strings the
\* model builds: the digest stands for the string it was computed from.
sha1(s) == [sha1 |-> s]
Hex16(h) == [hex16 |-> h]

\* "".join(ids[k] for k in g): document ids are 40-character digests, so the
\* joined string is the list of ids.
Join(idl, g) == [n \in 1..Len(g) |-> At(idl, g[n])]

\* ClusterId hashing the leader's id alone.
ClusterId_LeaderOnly(idl, g) == <<"c_", Hex16(sha1(<<At(idl, g[1])>>))>>

ClusterId(idl, g) == <<"c_", Hex16(sha1(Join(idl, g)))>>

\* `for g in groups: if not g: continue; for k in g:`, the position of the
\* next INSERT from position p on (g beyond the list: the loops are over).
\* NextPos with `for k in g[:1]`: the leader of each group only.
RECURSIVE NextPos_LeaderOnly(_, _)
NextPos_LeaderOnly(gs, p) ==
  IF p.g > Len(gs) THEN [g |-> Len(gs) + 1, k |-> 1]
  ELSE IF p.k > 1 \/ p.k > Len(gs[p.g]) THEN NextPos_LeaderOnly(gs, [g |-> p.g + 1, k |-> 1])
  ELSE p

RECURSIVE NextPos(_, _)
NextPos(gs, p) ==
  IF p.g > Len(gs) THEN [g |-> Len(gs) + 1, k |-> 1]
  ELSE IF p.k > Len(gs[p.g]) THEN NextPos(gs, [g |-> p.g + 1, k |-> 1])
  ELSE p

\* Rows other open transactions have inserted and not yet committed.
Pending(r) == UNION {DOMAIN txn[q] : q \in Runs \ {r}}

\* InsertRow as ON CONFLICT (id) DO UPDATE SET cluster_id = EXCLUDED.cluster_id.
InsertRow_Replace(r, d, row) ==
  IF d \in DOMAIN clusters
  THEN [txn |-> (d :> [clusters[d] EXCEPT !.cluster_id = row.cluster_id]) @@ txn[r],
        rowcount |-> 1]
  ELSE [txn |-> (d :> row) @@ txn[r], rowcount |-> 1]

\* InsertRow counting every INSERT as a created row (`created += 1`).
InsertRow_CountAll(r, d, row) ==
  IF d \in DOMAIN clusters \/ d \in DOMAIN txn[r]
  THEN [txn |-> txn[r], rowcount |-> 1]
  ELSE [txn |-> txn[r] @@ (d :> row), rowcount |-> 1]

\* InsertRow as ON CONFLICT (id) DO UPDATE: the new row replaces the old.
InsertRow_Upsert(r, d, row) == [txn |-> (d :> row) @@ txn[r], rowcount |-> 1]

\* INSERT ... ON CONFLICT (id) DO NOTHING of `row` under key d by run r:
\* the transaction's rows afterwards and cur2.rowcount.
InsertRow(r, d, row) ==
  IF d \in DOMAIN clusters \/ d \in DOMAIN txn[r]
  THEN [txn |-> txn[r], rowcount |-> 0]
  ELSE [txn |-> txn[r] @@ (d :> row), rowcount |-> 1]

\* --------------------------------------------------------------- 6) report
RECURSIVE InsertDesc(_, _)
InsertDesc(x, s) ==
  IF s = <<>> THEN <<x>>
  ELSE IF x >= Head(s) THEN <<x>> \o s
  ELSE <<Head(s)>> \o InsertDesc(x, Tail(s))

\* sorted(list, reverse=True)
RECURSIVE SortedDesc(_)
SortedDesc(s) == IF s = <<>> THEN <<>> ELSE InsertDesc(Head(s), SortedDesc(Tail(s)))

\* Summary with the sizes sorted in increasing order.
Summary_Ascending(gs, n) ==
  LET desc == SortedDesc([x \in 1..Len(gs) |-> Len(gs[x])])
      sizes == [k \in 1..Len(desc) |-> desc[Len(desc) + 1 - k]]
  IN  [groups |-> Len(gs),
       links_written |-> n,
       largest_group |-> IF sizes # <<>> THEN At(sizes, 0) ELSE 0,
       median_group |-> IF sizes # <<>> THEN At(sizes, Len(sizes) \div 2) ELSE 0,
       singleton_groups |-> Cardinality({x \in 1..Len(sizes) : sizes[x] = 1})]

\* sizes = sorted((len(g) for g in groups), reverse=True) and the table
Summary(gs, n) ==
  LET sizes == SortedDesc([x \in 1..Len(gs) |-> Len(gs[x])])
  IN  [groups |-> Len(gs),
       links_written |-> n,
       largest_group |-> IF sizes # <<>> THEN At(sizes, 0) ELSE 0,
       median_group |-> IF sizes # <<>> THEN At(sizes, Len(sizes) \div 2) ELSE 0,
       singleton_groups |-> Cardinality({x \in 1..Len(sizes) : sizes[x] = 1})]

NoReport ==
  [groups |-> 0, links_written |-> 0, largest_group |-> 0, median_group |-> 0,
   singleton_groups |-> 0]

\* What summarization stores in clusters.summary.
Summaries == {"{digest}"}

NoPrev ==
  [outcome |-> "none", committed |-> FALSE, wrote |-> FALSE, rows |-> NoRows,
   groups |-> <<>>, before |-> <<>>]

Init ==
  /\ articles_clean = <<>>
  /\ clusters = <<>>
  /\ pc = [r \in Runs |-> "idle"]
  /\ CLUSTER_LIMIT \in Limits
  /\ SIM_THRESHOLD \in Thresholds
  /\ TFIDF_NGRAM \in NgramRanges
  /\ rows = [r \in Runs |-> NoRows]
  /\ sim = [r \in Runs |-> <<>>]
  /\ groups = [r \in Runs |-> <<>>]
  /\ seen = [r \in Runs |-> {}]
  /\ i = [r \in Runs |-> 0]
  /\ pos = [r \in Runs |-> [g |-> 1, k |-> 1]]
  /\ txn = [r \in Runs |-> <<>>]
  /\ attempted = [r \in Runs |-> <<>>]
  /\ created = [r \in Runs |-> 0]
  /\ report = [r \in Runs |-> NoReport]
  /\ before = [r \in Runs |-> <<>>]
  /\ prev = NoPrev
  /\ starts = 0
  /\ dag = NoDag

Active(r) == pc[r] \in {"sample", "vectorize", "similarity", "group", "persist", "report"}
Quiescent == \A r \in Runs : pc[r] = "idle"

\* ------------------------------------------------------------ environment
\* extract.main stores a cleaned document that is not stored yet
\* (INSERT ... ON CONFLICT (id) DO NOTHING, committed per row).
Extract(d) ==
  /\ d \notin DOMAIN articles_clean
  /\ articles_clean' = articles_clean @@ (d :> Article(d))
  /\ prev' = NoPrev
  /\ UNCHANGED <<dag, clusters, pc, localVars, starts>>

\* Summarize with the UPDATE keyed by one row (WHERE id=...).
Summarize_OneRow(cid, s) ==
  /\ \E d \in DOMAIN clusters : clusters[d].cluster_id = cid /\ clusters[d].summary # s
  /\ LET one == CHOOSE d \in DOMAIN clusters : clusters[d].cluster_id = cid /\ clusters[d].summary # s
     IN  clusters' = [clusters EXCEPT ![one].summary = s]
  /\ prev' = NoPrev
  /\ UNCHANGED <<dag, articles_clean, pc, localVars, starts>>

\* summarize._update_cluster_summary:
\* UPDATE clusters SET summary=%s WHERE cluster_id=%s; commit.
Summarize(cid, s) ==
  /\ \E d \in DOMAIN clusters : clusters[d].cluster_id = cid
  /\ \E d \in DOMAIN clusters : clusters[d].cluster_id = cid /\ clusters[d].summary # s
  /\ clusters' = [d \in DOMAIN clusters |->
                    IF clusters[d].cluster_id = cid
                    THEN [clusters[d] EXCEPT !.summary = s]
                    ELSE clusters[d]]
  /\ prev' = NoPrev
  /\ UNCHANGED <<dag, articles_clean, pc, localVars, starts>>

\* The deployment's environment is changed between two runs:
\* TFIDF_NGRAM_MIN / TFIDF_NGRAM_MAX are set to a range sklearn rejects.
Misconfigure(ng) ==
  /\ TFIDF_NGRAM # ng
  /\ ng[1] > ng[2]
  /\ TFIDF_NGRAM' = ng
  /\ prev' = NoPrev
  /\ UNCHANGED <<dag, articles_clean, clusters, pc, CLUSTER_LIMIT, SIM_THRESHOLD, rows, sim,
                 groups, seen, i, pos, txn, attempted, created, report, before, starts>>

\* ------------------------------------------------------------ main(), a run
\* A process starts: ensure_tables(), pg_conn(), conn.cursor().
Start(r) ==
  /\ pc[r] = "idle"
  /\ starts < MaxStarts
  /\ starts' = starts + 1
  /\ before' = [before EXCEPT ![r] = clusters]
  /\ pc' = [pc EXCEPT ![r] = "sample"]
  /\ UNCHANGED <<dag, articles_clean, clusters, config, rows, sim, groups, seen, i, pos,
                 txn, attempted, created, report, prev>>

\* Whether an INSERT of r has added a row (rowcount 1).
Wrote(r) == \E n \in 1..Len(attempted[r]) : attempted[r][n][2] = 1

\* The process is gone and its memory with it.  prev keeps how the run
\* ended, the store it started from, whether it had inserted rows and, if
\* its transaction was committed, the sample and the groups it committed.
Gone(r, outcome) ==
  /\ LET committed == pc[r] \in {"report", "done"}
     IN  prev' = [outcome |-> outcome, committed |-> committed, wrote |-> Wrote(r),
                  rows |-> IF committed THEN rows[r] ELSE NoRows,
                  groups |-> IF committed THEN groups[r] ELSE <<>>,
                  before |-> before[r]]
  /\ pc' = [pc EXCEPT ![r] = "idle"]
  /\ rows' = [rows EXCEPT ![r] = NoRows]
  /\ sim' = [sim EXCEPT ![r] = <<>>]
  /\ groups' = [groups EXCEPT ![r] = <<>>]
  /\ seen' = [seen EXCEPT ![r] = {}]
  /\ i' = [i EXCEPT ![r] = 0]
  /\ pos' = [pos EXCEPT ![r] = [g |-> 1, k |-> 1]]
  /\ txn' = [txn EXCEPT ![r] = <<>>]
  /\ attempted' = [attempted EXCEPT ![r] = <<>>]
  /\ created' = [created EXCEPT ![r] = 0]
  /\ report' = [report EXCEPT ![r] = NoReport]
  /\ before' = [before EXCEPT ![r] = <<>>]
  /\ UNCHANGED <<dag, articles_clean, clusters, config, starts>>

\* Sample without the `if not rows: return`.
Sample_NoEarlyReturn(r) ==
  /\ pc[r] = "sample"
  /\ \E s \in SampleChoices(CLUSTER_LIMIT) : rows' = [rows EXCEPT ![r] = FetchAll(s)]
  /\ pc' = [pc EXCEPT ![r] = "vectorize"]
  /\ UNCHANGED <<dag, articles_clean, clusters, CLUSTER_LIMIT, SIM_THRESHOLD, TFIDF_NGRAM, sim, groups,
                 seen, i, pos, txn, attempted, created, report, before, prev, starts>>

\* 1) the SELECT, and the early return on an empty result
Sample(r) ==
  /\ pc[r] = "sample"
  /\ \E s \in SampleChoices(CLUSTER_LIMIT) :
       /\ rows' = [rows EXCEPT ![r] = FetchAll(s)]
       /\ pc' = [pc EXCEPT ![r] = IF Len(s) = 0 THEN "done" ELSE "vectorize"]
  /\ UNCHANGED <<dag, articles_clean, clusters, CLUSTER_LIMIT, SIM_THRESHOLD, TFIDF_NGRAM, sim, groups,
                 seen, i, pos, txn, attempted, created, report, before, prev, starts>>

\* fit_transform validates ngram_range (min_n <= max_n) and raises
\* ValueError on an invalid one; it raises ValueError("empty vocabulary ...")
\* when no document of the sample has a term.
VectorizeRaises(r) == TFIDF_NGRAM[1] > TFIDF_NGRAM[2] \/ Vocabulary(r) = {}

\* Vectorize with the exception caught and the run going on.
Vectorize_Swallow(r) ==
  /\ pc[r] = "vectorize"
  /\ pc' = [pc EXCEPT ![r] = "similarity"]
  /\ UNCHANGED <<dag, articles_clean, clusters, localVars, prev, starts>>

\* 2) vec = TfidfVectorizer(...); X = vec.fit_transform(docs).  An
\* exception leaves main() through @step, which re-raises it.
Vectorize(r) ==
  /\ pc[r] = "vectorize"
  /\ pc' = [pc EXCEPT ![r] = IF VectorizeRaises(r) THEN "failed" ELSE "similarity"]
  /\ UNCHANGED <<dag, articles_clean, clusters, localVars, prev, starts>>

\* 3) sim = cosine_similarity(X); groups = []; seen = set()
Similarity(r) ==
  /\ pc[r] = "similarity"
  /\ \E m \in SimChoices(Vectors(r)) : sim' = [sim EXCEPT ![r] = m]
  /\ groups' = [groups EXCEPT ![r] = <<>>]
  /\ seen' = [seen EXCEPT ![r] = {}]
  /\ i' = [i EXCEPT ![r] = 0]
  /\ pc' = [pc EXCEPT ![r] = "group"]
  /\ UNCHANGED <<dag, articles_clean, clusters, CLUSTER_LIMIT, SIM_THRESHOLD, TFIDF_NGRAM, rows, pos,
                 txn, attempted, created, report, before, prev, starts>>

\* GroupStep with `seen` a module-level set shared by all invocations.
GroupStep_SharedSeen(r) ==
  LET shared == UNION {seen[q] : q \in Runs}
  IN  /\ pc[r] = "group"
      /\ i[r] < Len(rows[r])
      /\ IF i[r] \in shared
         THEN UNCHANGED <<dag, groups, seen>>
         ELSE LET res == Scan(sim[r], SIM_THRESHOLD, Len(rows[r]), i[r], i[r] + 1,
                              <<i[r]>>, shared \union {i[r]})
              IN  /\ groups' = [groups EXCEPT ![r] = Append(@, res.g)]
                  /\ seen' = [seen EXCEPT ![r] = res.seen]
      /\ i' = [i EXCEPT ![r] = @ + 1]
      /\ UNCHANGED <<dag, articles_clean, clusters, pc, CLUSTER_LIMIT, SIM_THRESHOLD, TFIDF_NGRAM, rows,
                     sim, pos, txn, attempted, created, report, before, prev, starts>>

\* 4) one iteration of `for i in range(len(rows))`
GroupStep(r) ==
  /\ pc[r] = "group"
  /\ i[r] < Len(rows[r])
  /\ IF i[r] \in seen[r]
     THEN UNCHANGED <<dag, groups, seen>>
     ELSE LET res == Scan(sim[r], SIM_THRESHOLD, Len(rows[r]), i[r], i[r] + 1,
                          <<i[r]>>, seen[r] \union {i[r]})
          IN  /\ groups' = [groups EXCEPT ![r] = Append(@, res.g)]
              /\ seen' = [seen EXCEPT ![r] = res.seen]
  /\ i' = [i EXCEPT ![r] = @ + 1]
  /\ UNCHANGED <<dag, articles_clean, clusters, pc, CLUSTER_LIMIT, SIM_THRESHOLD, TFIDF_NGRAM, rows, sim,
                 pos, txn, attempted, created, report, before, prev, starts>>

\* the loop is over: cur2 = conn.cursor(); created = 0.  sim, seen and i
\* are not read again: the model forgets them here.
BeginPersist(r) ==
  /\ pc[r] = "group"
  /\ i[r] = Len(rows[r])
  /\ created' = [created EXCEPT ![r] = 0]
  /\ pos' = [pos EXCEPT ![r] = NextPos(groups[r], [g |-> 1, k |-> 1])]
  /\ sim' = [sim EXCEPT ![r] = <<>>]
  /\ seen' = [seen EXCEPT ![r] = {}]
  /\ i' = [i EXCEPT ![r] = 0]
  /\ pc' = [pc EXCEPT ![r] = "persist"]
  /\ UNCHANGED <<dag, articles_clean, clusters, CLUSTER_LIMIT, SIM_THRESHOLD, TFIDF_NGRAM, rows,
                 groups, txn, attempted, report, before, prev, starts>>

\* Whether no other live run has executed an INSERT for document d.
First(r, d) ==
  \A q \in Runs \ {r} : \A n \in 1..Len(attempted[q]) : attempted[q][n][1] # d

\* Insert on a table without the unique index on id: the INSERT does not
\* wait for the open transaction that has inserted the same id.
Insert_NoWait(r) ==
  /\ pc[r] = "persist"
  /\ pos[r].g <= Len(groups[r])
  /\ LET g == groups[r][pos[r].g]
         k == g[pos[r].k]
         d == At(ids(r), k)
         cid == ClusterId(ids(r), g)
         res == InsertRow(r, d, [cluster_id |-> cid, title |-> At(titles(r), k),
                                 summary |-> EmptyJson])
     IN  /\ txn' = [txn EXCEPT ![r] = res.txn]
         /\ created' = [created EXCEPT ![r] = @ + res.rowcount]
         /\ attempted' = [attempted EXCEPT ![r] = Append(@, <<d, res.rowcount, First(r, d)>>)]
         /\ pos' = [pos EXCEPT ![r] = NextPos(groups[r], [g |-> @.g, k |-> @.k + 1])]
  /\ UNCHANGED <<dag, articles_clean, clusters, pc, CLUSTER_LIMIT, SIM_THRESHOLD, TFIDF_NGRAM, rows, sim,
                 groups, seen, i, report, before, prev, starts>>

\* 5) one cur2.execute(INSERT ...) and created += cur2.rowcount or 0.  An
\* INSERT whose key another open transaction has inserted waits for it.
Insert(r) ==
  /\ pc[r] = "persist"
  /\ pos[r].g <= Len(groups[r])
  /\ LET g == groups[r][pos[r].g]
         k == g[pos[r].k]
         d == At(ids(r), k)
         cid == ClusterId(ids(r), g)
         res == InsertRow(r, d, [cluster_id |-> cid, title |-> At(titles(r), k),
                                 summary |-> EmptyJson])
     IN  /\ d \notin Pending(r)
         /\ txn' = [txn EXCEPT ![r] = res.txn]
         /\ created' = [created EXCEPT ![r] = @ + res.rowcount]
         /\ attempted' = [attempted EXCEPT ![r] = Append(@, <<d, res.rowcount, First(r, d)>>)]
         /\ pos' = [pos EXCEPT ![r] = NextPos(groups[r], [g |-> @.g, k |-> @.k + 1])]
  /\ UNCHANGED <<dag, articles_clean, clusters, pc, CLUSTER_LIMIT, SIM_THRESHOLD, TFIDF_NGRAM, rows, sim,
                 groups, seen, i, report, before, prev, starts>>

\* InsertRaises on a connection in autocommit mode: what was inserted stays.
InsertRaises_Autocommit(r) ==
  /\ pc[r] = "persist"
  /\ pos[r].g <= Len(groups[r])
  /\ clusters' = txn[r] @@ clusters
  /\ txn' = [txn EXCEPT ![r] = <<>>]
  /\ pc' = [pc EXCEPT ![r] = "failed"]
  /\ UNCHANGED <<dag, articles_clean, CLUSTER_LIMIT, SIM_THRESHOLD, TFIDF_NGRAM, rows, sim, groups, seen,
                 i, pos, attempted, created, report, before, prev, starts>>

\* cur2.execute raises (the store is unreachable, the write fails): the
\* exception leaves main() before conn.commit(), the connection is dropped
\* and the server rolls the open transaction back.
InsertRaises(r) ==
  /\ pc[r] = "persist"
  /\ pos[r].g <= Len(groups[r])
  /\ txn' = [txn EXCEPT ![r] = <<>>]
  /\ pc' = [pc EXCEPT ![r] = "failed"]
  /\ UNCHANGED <<dag, articles_clean, clusters, CLUSTER_LIMIT, SIM_THRESHOLD, TFIDF_NGRAM, rows, sim,
                 groups, seen, i, pos, attempted, created, report, before, prev, starts>>

\* Commit with `conn.commit()` left out: the connection is closed and the
\* transaction is lost.
Commit_Forgotten(r) ==
  /\ pc[r] = "persist"
  /\ pos[r].g > Len(groups[r])
  /\ txn' = [txn EXCEPT ![r] = <<>>]
  /\ pc' = [pc EXCEPT ![r] = "report"]
  /\ UNCHANGED <<dag, articles_clean, clusters, CLUSTER_LIMIT, SIM_THRESHOLD, TFIDF_NGRAM, rows, sim,
                 groups, seen, i, pos, attempted, created, report, before, prev, starts>>

\* Commit of a run that rebuilds the table: only its own rows are left.
Commit_Replace(r) ==
  /\ pc[r] = "persist"
  /\ pos[r].g > Len(groups[r])
  /\ clusters' = txn[r]
  /\ txn' = [txn EXCEPT ![r] = <<>>]
  /\ pc' = [pc EXCEPT ![r] = "report"]
  /\ UNCHANGED <<dag, articles_clean, CLUSTER_LIMIT, SIM_THRESHOLD, TFIDF_NGRAM, rows, sim, groups, seen,
                 i, pos, attempted, created, report, before, prev, starts>>

\* conn.commit(); cur2.close(); cur.close(); conn.close()
Commit(r) ==
  /\ pc[r] = "persist"
  /\ pos[r].g > Len(groups[r])
  /\ clusters' = txn[r] @@ clusters
  /\ txn' = [txn EXCEPT ![r] = <<>>]
  /\ pc' = [pc EXCEPT ![r] = "report"]
  /\ UNCHANGED <<dag, articles_clean, CLUSTER_LIMIT, SIM_THRESHOLD, TFIDF_NGRAM, rows, sim, groups, seen,
                 i, pos, attempted, created, report, before, prev, starts>>

\* conn.commit() raises: nothing of the transaction is stored.
CommitRaises(r) ==
  /\ pc[r] = "persist"
  /\ pos[r].g > Len(groups[r])
  /\ txn' = [txn EXCEPT ![r] = <<>>]
  /\ pc' = [pc EXCEPT ![r] = "failed"]
  /\ UNCHANGED <<dag, articles_clean, clusters, CLUSTER_LIMIT, SIM_THRESHOLD, TFIDF_NGRAM, rows, sim,
                 groups, seen, i, pos, attempted, created, report, before, prev, starts>>

\* 6) the summary table
Report(r) ==
  /\ pc[r] = "report"
  /\ report' = [report EXCEPT ![r] = Summary(groups[r], created[r])]
  /\ pc' = [pc EXCEPT ![r] = "done"]
  /\ UNCHANGED <<dag, articles_clean, clusters, CLUSTER_LIMIT, SIM_THRESHOLD, TFIDF_NGRAM, rows, sim,
                 groups, seen, i, pos, txn, attempted, created, before, prev, starts>>

\* The scheduler kills the task: the process dies where it stands and the
\* server rolls back what its connection has not committed.
Abort(r) ==
  /\ Active(r)
  /\ Gone(r, "aborted")

\* main() has returned or raised, and the process ends.
Exit(r) ==
  /\ pc[r] \in {"done", "failed"}
  /\ Gone(r, pc[r])

\* main() from its first statement after the connection on
Body(r) ==
  \/ Sample(r)
  \/ Vectorize(r)
  \/ Similarity(r)
  \/ GroupStep(r)
  \/ BeginPersist(r)
  \/ Insert(r)
  \/ InsertRaises(r)
  \/ Commit(r)
  \/ CommitRaises(r)
  \/ Report(r)
  \/ Abort(r)
  \/ Exit(r)

Run(r) == Start(r) \/ Body(r)

\* The daily schedule: extract, cluster and summarize run one after the
\* other, one task at a time.
Next ==
  \/ \E d \in Docs : Quiescent /\ Extract(d)
  \/ \E d \in Docs, s \in Summaries :
       Quiescent /\ d \in DOMAIN clusters /\ Summarize(clusters[d].cluster_id, s)
  \/ \E ng \in NgramRanges : Quiescent /\ Misconfigure(ng)
  \/ \E r \in SeqRuns : Run(r)

Spec == Init /\ [][Next]_vars

\* ------------------------------------------------------ the grouper alone
\* Step 4 as a function of its inputs (the sample size, the matrix, the
\* threshold): two invocations r1, r2 are given the same inputs and run
\* the loop side by side.
SymMatrices(N) ==
  LET P == {p \in Range(0, N) \X Range(0, N) : p[1] < p[2]}
  IN  { [a \in Range(0, N) |-> [b \in Range(0, N) |->
            IF a = b THEN 100
            ELSE IF a < b THEN f[<<a, b>>] ELSE f[<<b, a>>]]] :
        f \in [P -> GroupLevels] }

SampleOf(N) ==
  [n \in 1..N |-> [id |-> n, title |-> Article(n).title, text |-> Article(n).text]]

InitGroup ==
  /\ articles_clean = <<>>
  /\ clusters = <<>>
  /\ CLUSTER_LIMIT = MaxN
  /\ SIM_THRESHOLD \in GroupThresholds
  /\ TFIDF_NGRAM = <<1, 2>>
  /\ \E N \in 1..MaxN :
       /\ rows = [r \in Runs |-> SampleOf(N)]
       /\ \E m \in SymMatrices(N) : sim = [r \in Runs |-> m]
  /\ pc = [r \in Runs |-> "group"]
  /\ groups = [r \in Runs |-> <<>>]
  /\ seen = [r \in Runs |-> {}]
  /\ i = [r \in Runs |-> 0]
  /\ pos = [r \in Runs |-> [g |-> 1, k |-> 1]]
  /\ txn = [r \in Runs |-> <<>>]
  /\ attempted = [r \in Runs |-> <<>>]
  /\ created = [r \in Runs |-> 0]
  /\ report = [r \in Runs |-> NoReport]
  /\ before = [r \in Runs |-> <<>>]
  /\ prev = NoPrev
  /\ starts = 0
  /\ dag = NoDag

NextGroup == \E r \in Runs : GroupStep(r) \/ BeginPersist(r)

SpecGroup == InitGroup /\ [][NextGroup]_vars

\* ------------------------------------------- one sample in two orders
\* The grouper on the same documents and the same similarities in two
\* orders: run r1 gets them as SampleOf gives them, run r2 in the reverse
\* order (rows and matrix permuted alike).
Reversed(list) == [n \in 1..Len(list) |-> list[Len(list) + 1 - n]]

InitOrder ==
  /\ articles_clean = <<>>
  /\ clusters = <<>>
  /\ CLUSTER_LIMIT = MaxN
  /\ SIM_THRESHOLD \in GroupThresholds
  /\ TFIDF_NGRAM = <<1, 2>>
  /\ \E N \in 1..MaxN : \E m \in SymMatrices(N) :
       /\ rows = [r \in Runs |-> IF r \in SeqRuns THEN SampleOf(N) ELSE Reversed(SampleOf(N))]
       /\ sim = [r \in Runs |->
                   IF r \in SeqRuns THEN m
                   ELSE [a \in Range(0, N) |-> [b \in Range(0, N) |-> m[N - 1 - a][N - 1 - b]]]]
  /\ pc = [r \in Runs |-> "group"]
  /\ groups = [r \in Runs |-> <<>>]
  /\ seen = [r \in Runs |-> {}]
  /\ i = [r \in Runs |-> 0]
  /\ pos = [r \in Runs |-> [g |-> 1, k |-> 1]]
  /\ txn = [r \in Runs |-> <<>>]
  /\ attempted = [r \in Runs |-> <<>>]
  /\ created = [r \in Runs |-> 0]
  /\ report = [r \in Runs |-> NoReport]
  /\ before = [r \in Runs |-> <<>>]
  /\ prev = NoPrev
  /\ starts = 0
  /\ dag = NoDag

SpecOrder == InitOrder /\ [][NextGroup]_vars

\* ------------------------------------------------------- the DAG run
\* One run of the DAG compiler_intel_daily under Airflow's defaults: a task
\* is scheduled when its upstream task has succeeded (trigger rule
\* all_success), a task that fails goes up_for_retry while it has tries
\* left (retries = 1) and is scheduled again after retry_delay, one task
\* runs at a time.
storeVars == <<articles_clean, clusters, pc, localVars, starts>>

\* DagSchedule under trigger rule all_done: upstream finished, however.
DagSchedule_AllDone(t) ==
  /\ dag[t].state \in {"none", "up_for_retry"}
  /\ t > 1 => dag[t - 1].state \in {"success", "failed"}
  /\ dag' = [dag EXCEPT ![t] = [state |-> "running", try |-> @.try + 1]]
  /\ prev' = NoPrev
  /\ UNCHANGED storeVars

\* The scheduler starts (a try of) task t.
DagSchedule(t) ==
  /\ dag[t].state \in {"none", "up_for_retry"}
  /\ t > 1 => dag[t - 1].state = "success"
  /\ dag' = [dag EXCEPT ![t] = [state |-> "running", try |-> @.try + 1]]
  /\ prev' = NoPrev
  /\ UNCHANGED storeVars

\* The state of a task whose try has ended.
Ended(t, ok) ==
  IF ok THEN "success" ELSE IF dag[t].try <= retries THEN "up_for_retry" ELSE "failed"

\* A try of a task other than cluster ends (its callable returns or raises).
DagFinish(t, ok) ==
  /\ t # Task("cluster")
  /\ dag[t].state = "running"
  /\ dag' = [dag EXCEPT ![t].state = Ended(t, ok)]
  /\ UNCHANGED <<storeVars, prev>>

\* The worker calls cluster_main for the running try, once.
DagStart(r) ==
  /\ dag[Task("cluster")].state = "running"
  /\ prev = NoPrev
  /\ Start(r)

\* The try of cluster has ended: cluster_main returned, raised or was killed.
DagObserve ==
  /\ dag[Task("cluster")].state = "running"
  /\ Quiescent
  /\ prev.outcome # "none"
  /\ dag' = [dag EXCEPT ![Task("cluster")].state = Ended(Task("cluster"), prev.outcome = "done")]
  /\ UNCHANGED <<storeVars, prev>>

InitDag ==
  /\ articles_clean = <<>>
  /\ clusters = <<>>
  /\ pc = [r \in Runs |-> "idle"]
  /\ CLUSTER_LIMIT \in Limits
  /\ SIM_THRESHOLD \in Thresholds
  /\ TFIDF_NGRAM = <<1, 2>>
  /\ rows = [r \in Runs |-> NoRows]
  /\ sim = [r \in Runs |-> <<>>]
  /\ groups = [r \in Runs |-> <<>>]
  /\ seen = [r \in Runs |-> {}]
  /\ i = [r \in Runs |-> 0]
  /\ pos = [r \in Runs |-> [g |-> 1, k |-> 1]]
  /\ txn = [r \in Runs |-> <<>>]
  /\ attempted = [r \in Runs |-> <<>>]
  /\ created = [r \in Runs |-> 0]
  /\ report = [r \in Runs |-> NoReport]
  /\ before = [r \in Runs |-> <<>>]
  /\ prev = NoPrev
  /\ starts = 0
  /\ dag = NoDag

NextDag ==
  \/ \E t \in Tasks : DagSchedule(t)
  \/ \E t \in Tasks, ok \in BOOLEAN : DagFinish(t, ok)
  \/ DagObserve
  \/ \E d \in Docs : dag[Task("extract")].state = "running" /\ Extract(d)
  \/ \E d \in Docs, s \in Summaries :
       /\ dag[Task("summarize")].state = "running"
       /\ d \in DOMAIN clusters
       /\ Summarize(clusters[d].cluster_id, s)
  \/ \E r \in SeqRuns : DagStart(r) \/ Body(r)

SpecDag == InitDag /\ [][NextDag]_vars

\* --------------------------------------------- from documents to groups
\* Steps 2 to 4 as a function of the sample and the threshold: a sample of
\* up to MaxN documents out of VecDocs (no term, one term, another term,
\* and two spellings of the same two terms), at a threshold of VecThresholds.
VecDocs ==
  { [title |-> NULL, text |-> ""], [title |-> NULL, text |-> "pass"],
    [title |-> "llvm", text |-> ""], [title |-> "llvm", text |-> "pass"],
    [title |-> NULL, text |-> "llvm pass"] }
VecThresholds == {50, 100}

InitVec ==
  /\ articles_clean = <<>>
  /\ clusters = <<>>
  /\ CLUSTER_LIMIT = MaxN
  /\ SIM_THRESHOLD \in VecThresholds
  /\ TFIDF_NGRAM = <<1, 2>>
  /\ \E N \in 1..MaxN : \E dc \in [1..N -> VecDocs] :
       rows = [r \in Runs |->
                 IF r \in SeqRuns
                 THEN [n \in 1..N |-> [id |-> n, title |-> dc[n].title, text |-> dc[n].text]]
                 ELSE NoRows]
  /\ pc = [r \in Runs |-> IF r \in SeqRuns THEN "vectorize" ELSE "idle"]
  /\ sim = [r \in Runs |-> <<>>]
  /\ groups = [r \in Runs |-> <<>>]
  /\ seen = [r \in Runs |-> {}]
  /\ i = [r \in Runs |-> 0]
  /\ pos = [r \in Runs |-> [g |-> 1, k |-> 1]]
  /\ txn = [r \in Runs |-> <<>>]
  /\ attempted = [r \in Runs |-> <<>>]
  /\ created = [r \in Runs |-> 0]
  /\ report = [r \in Runs |-> NoReport]
  /\ before = [r \in Runs |-> <<>>]
  /\ prev = NoPrev
  /\ starts = 0
  /\ dag = NoDag

NextVec == \E r \in SeqRuns : Vectorize(r) \/ Similarity(r) \/ GroupStep(r) \/ BeginPersist(r)

SpecVec == InitVec /\ [][NextVec]_vars

\* -------------------------------------------------------- concurrent runs
\* Two processes execute main() against the same store (a manual run next
\* to the scheduled one, or two scheduled runs overlapping), with as many
\* starts left as there are processes.  The store holds any set of
\* documents and either no row or the row of a run that sampled document 3
\* alone.
StoredRuns ==
  {<<>>, (3 :> [cluster_id |-> ClusterId(<<3>>, <<0>>), title |-> OrEmpty(Article(3).title),
                summary |-> EmptyJson])}

InitConc ==
  /\ \E A \in SUBSET Docs : articles_clean = [d \in A |-> Article(d)]
  /\ clusters \in StoredRuns
  /\ DOMAIN clusters \subseteq DOMAIN articles_clean
  /\ pc = [r \in Runs |-> "idle"]
  /\ CLUSTER_LIMIT \in Limits
  /\ SIM_THRESHOLD \in Thresholds
  /\ TFIDF_NGRAM = <<1, 2>>
  /\ rows = [r \in Runs |-> NoRows]
  /\ sim = [r \in Runs |-> <<>>]
  /\ groups = [r \in Runs |-> <<>>]
  /\ seen = [r \in Runs |-> {}]
  /\ i = [r \in Runs |-> 0]
  /\ pos = [r \in Runs |-> [g |-> 1, k |-> 1]]
  /\ txn = [r \in Runs |-> <<>>]
  /\ attempted = [r \in Runs |-> <<>>]
  /\ created = [r \in Runs |-> 0]
  /\ report = [r \in Runs |-> NoReport]
  /\ before = [r \in Runs |-> <<>>]
  /\ prev = NoPrev
  /\ starts = MaxStarts - Cardinality(Runs)
  /\ dag = NoDag

NextConc == \E r \in Runs : Run(r)

SpecConc == InitConc /\ [][NextConc]_vars

\* ------------------------------------- concurrent runs and the summarizer
\* Two runs over a table that holds every document, with summarize.py
\* updating the summary of any stored cluster at any moment (its UPDATE
\* sees the committed rows).
NextSum ==
  \/ \E r \in Runs : Run(r)
  \/ \E d \in Docs, s \in Summaries :
       d \in DOMAIN clusters /\ Summarize(clusters[d].cluster_id, s)

InitSum ==
  /\ articles_clean = [d \in Docs |-> Article(d)]
  /\ clusters \in StoredRuns
  /\ pc = [r \in Runs |-> "idle"]
  /\ CLUSTER_LIMIT \in Limits
  /\ SIM_THRESHOLD \in Thresholds
  /\ TFIDF_NGRAM = <<1, 2>>
  /\ rows = [r \in Runs |-> NoRows]
  /\ sim = [r \in Runs |-> <<>>]
  /\ groups = [r \in Runs |-> <<>>]
  /\ seen = [r \in Runs |-> {}]
  /\ i = [r \in Runs |-> 0]
  /\ pos = [r \in Runs |-> [g |-> 1, k |-> 1]]
  /\ txn = [r \in Runs |-> <<>>]
  /\ attempted = [r \in Runs |-> <<>>]
  /\ created = [r \in Runs |-> 0]
  /\ report = [r \in Runs |-> NoReport]
  /\ before = [r \in Runs |-> <<>>]
  /\ prev = NoPrev
  /\ starts = MaxStarts - Cardinality(Runs)
  /\ dag = NoDag

SpecSum == InitSum /\ [][NextSum]_vars

\* =================================================================== claims
\* The outer loop of run r is over and the matrix is still at hand.
Grouped(r) == pc[r] = "group" /\ i[r] = Len(rows[r])
\* The groups of run r are final.
GroupsFinal(r) == Grouped(r) \/ pc[r] \in {"persist", "report", "done"}
\* The positions of the groups emitted before groups[r][x].
Earlier(r, x) == UNION {Elems(groups[r][y]) : y \in 1..(x - 1)}

\* C1 -- the emitted groups are a partition of the sample indices 0..N-1:
\* every index is in exactly one group and occurs once in it, the groups
\* cover the sample, and no emitted group is empty (so the persistence
\* loop never skips a group).
C1_Partition ==
  \A r \in Runs : GroupsFinal(r) /\ rows[r] # NoRows =>
    LET gs == groups[r]
        N == Len(rows[r])
    IN  /\ \A k \in Range(0, N) :
             Cardinality({x \in 1..Len(gs) : k \in Elems(gs[x])}) = 1
        /\ \A x \in 1..Len(gs) :
             /\ gs[x] # <<>>
             /\ Cardinality(Elems(gs[x])) = Len(gs[x])
             /\ Elems(gs[x]) \subseteq Range(0, N)
        /\ \A x, y \in 1..Len(gs) : x # y => Elems(gs[x]) \intersect Elems(gs[y]) = {}
        /\ UNION {Elems(gs[x]) : x \in 1..Len(gs)} = Range(0, N)
        /\ NextPos(gs, [g |-> 1, k |-> 1]) = [g |-> 1, k |-> 1]
        /\ \A x \in 1..Len(gs) : NextPos(gs, [g |-> x, k |-> 1]).g = x

\* C1 witness: a sample of three split into a pair and a singleton.
C1_Witness ==
  /\ Grouped("r1")
  /\ Len(rows["r1"]) = 3
  /\ Len(groups["r1"]) = 2
  /\ \E x \in 1..2 : Len(groups["r1"][x]) = 2

\* C2 -- in every emitted group with leader i, a position j is a member
\* exactly when j = i, or j > i, j is in no earlier group and
\* sim[i][j] >= threshold (equality included); no other similarity decides.
C2_LeaderOnly ==
  \A r \in Runs : Grouped(r) =>
    \A x \in 1..Len(groups[r]) :
      LET g == groups[r][x]
          lead == g[1]
      IN  /\ \A n \in 2..Len(g) : g[n] > lead /\ sim[r][lead][g[n]] >= SIM_THRESHOLD
          /\ \A j \in Range(lead + 1, Len(rows[r])) :
               (sim[r][lead][j] >= SIM_THRESHOLD /\ j \notin Earlier(r, x))
                 => j \in Elems(g)

\* C2 witness: a member whose similarity to the leader equals the threshold,
\* in a group with another member it is not similar to.
C2_Witness ==
  /\ Grouped("r1")
  /\ \E x \in 1..Len(groups["r1"]) :
       LET g == groups["r1"][x]
       IN  /\ Len(g) = 3
           /\ sim["r1"][g[1]][g[2]] = SIM_THRESHOLD
           /\ sim["r1"][g[2]][g[3]] < SIM_THRESHOLD

\* C3 -- grouping is not transitive: for sim(A,B)=0.6, sim(A,C)=0.3,
\* sim(B,C)=0.7 and threshold 0.5 the groups are [A,B] and [C]; in general
\* a member that is not the leader pulls nobody in: a position below the
\* threshold with the leader is outside the group whatever its similarity
\* to the other members.
C3_Example(r) ==
  /\ Len(rows[r]) = 3
  /\ SIM_THRESHOLD = 50
  /\ sim[r][0][1] = 60
  /\ sim[r][0][2] = 30
  /\ sim[r][1][2] = 70

C3_NotTransitive ==
  \A r \in Runs : Grouped(r) =>
    /\ C3_Example(r) => groups[r] = << <<0, 1>>, <<2>> >>
    /\ \A x \in 1..Len(groups[r]) :
         LET g == groups[r][x]
         IN  \A n \in 2..Len(g) : \A j \in Range(0, Len(rows[r])) :
               (j # g[1] /\ sim[r][g[n]][j] >= SIM_THRESHOLD
                  /\ sim[r][g[1]][j] < SIM_THRESHOLD) => j \notin Elems(g)

\* C3 witness: the example, grouped.
C3_Witness == Grouped("r1") /\ C3_Example("r1") /\ Len(groups["r1"]) = 2

SampleIds(rws) == {rws[n].id : n \in 1..Len(rws)}
CidMap(tbl) == [d \in DOMAIN tbl |-> tbl[d].cluster_id]
\* The cluster_id the groups gs give to the document at sample position k.
CidOf(rws, gs, k) ==
  LET idl == [n \in 1..Len(rws) |-> rws[n].id]
      x == CHOOSE y \in 1..Len(gs) : k \in Elems(gs[y])
  IN  ClusterId(idl, gs[x])
\* The cluster_ids of the table after one uninterrupted run that starts
\* from `store`, samples rws and groups it as gs.
RunResult(store, rws, gs) ==
  [d \in DOMAIN store \union SampleIds(rws) |->
     IF d \in DOMAIN store THEN store[d].cluster_id
     ELSE CidOf(rws, gs, (CHOOSE n \in 1..Len(rws) : rws[n].id = d) - 1)]

\* C5 -- a run that follows a completed run on the same sample inserts
\* nothing: created is 0, every INSERT has rowcount 0, and the table, the
\* cluster_id of every document included, is as the first run left it.
C5_Idempotent ==
  \A r \in Runs :
    (pc[r] = "done" /\ prev.outcome = "done"
       /\ SampleIds(prev.rows) = SampleIds(rows[r])) =>
      /\ created[r] = 0
      /\ \A n \in 1..Len(attempted[r]) : attempted[r][n][2] = 0
      /\ DOMAIN clusters = DOMAIN before[r]
      /\ \A d \in DOMAIN before[r] : clusters[d].cluster_id = before[r][d].cluster_id

\* C5 witness: the second run is through, on the same non-empty sample, and
\* has grouped it differently from the first.
C5_Witness ==
  /\ pc["r1"] = "done"
  /\ prev.outcome = "done"
  /\ rows["r1"] # NoRows
  /\ SampleIds(prev.rows) = SampleIds(rows["r1"])
  /\ groups["r1"] # prev.groups
  /\ Len(attempted["r1"]) = Len(rows["r1"])

\* C6 -- a row that exists when a run starts is the same row (cluster_id,
\* title, summary) at every step of the run and when the run has ended,
\* however the run ends and whatever group it puts the document in.
C6_PriorImmutable ==
  /\ \A r \in Runs : pc[r] # "idle" =>
       \A d \in DOMAIN before[r] : d \in DOMAIN clusters /\ clusters[d] = before[r][d]
  /\ (Quiescent /\ prev.outcome # "none") =>
       \A d \in DOMAIN prev.before : d \in DOMAIN clusters /\ clusters[d] = prev.before[d]

\* C6 witness: a completed run has put a document that had a summarized row
\* into a group with another cluster_id.
C6_Witness ==
  /\ pc["r1"] = "done"
  /\ \E k \in Range(0, Len(rows["r1"])) :
       LET d == At(ids("r1"), k)
       IN  /\ d \in DOMAIN before["r1"]
           /\ clusters[d].summary # EmptyJson
           /\ CidOf(rows["r1"], groups["r1"], k) # clusters[d].cluster_id

\* C7 -- a completed run leaves rows for exactly the documents that had one
\* before it or were sampled by it; no run, however it ends, removes a row
\* or adds one for a document it did not sample.
C7_AddsOnlyNew ==
  /\ \A r \in Runs :
       /\ pc[r] \in {"report", "done"} =>
            DOMAIN clusters = DOMAIN before[r] \union SampleIds(rows[r])
       /\ pc[r] # "idle" =>
            /\ DOMAIN before[r] \subseteq DOMAIN clusters
            /\ DOMAIN clusters \subseteq DOMAIN before[r] \union SampleIds(rows[r])
  /\ (Quiescent /\ prev.outcome # "none") => DOMAIN prev.before \subseteq DOMAIN clusters

\* C7 witness: a completed run whose sample held a document with a row and
\* a document without one.
C7_Witness ==
  /\ pc["r1"] = "done"
  /\ created["r1"] > 0
  /\ SampleIds(rows["r1"]) \intersect DOMAIN before["r1"] # {}
  /\ ~(SampleIds(rows["r1"]) \subseteq DOMAIN before["r1"])

C9_EmptySample ==
  \A r \in Runs :
    (pc[r] \notin {"idle", "sample"} /\ DOMAIN articles_clean = {}) =>
      /\ pc[r] = "done"
      /\ rows[r] = NoRows
      /\ groups[r] = <<>>
      /\ attempted[r] = <<>>
      /\ txn[r] = <<>>
      /\ clusters = before[r]

\* C9 witness: a run over the empty table has returned.
C9_Witness == pc["r1"] = "done" /\ rows["r1"] = NoRows /\ DOMAIN articles_clean = {}

\* C10 -- after a run killed by the scheduler and one complete retry (on
\* the same sample, when the killed run had committed), the table holds
\* the documents and cluster_ids of one uninterrupted run from the store
\* the killed run started from.
C10_RetrySafe ==
  \A r \in Runs :
    (pc[r] = "done" /\ prev.outcome = "aborted"
       /\ (prev.committed => prev.rows = rows[r])) =>
      CidMap(clusters) =
        RunResult(prev.before, rows[r],
                  IF prev.committed THEN prev.groups ELSE groups[r])

\* C10 witness: the killed run had inserted rows and not committed; the
\* retry is through and has inserted rows.
C10_Witness ==
  /\ pc["r1"] = "done"
  /\ prev.outcome = "aborted"
  /\ prev.wrote
  /\ ~prev.committed
  /\ created["r1"] > 0

\* C11 -- when vectorization fails (a rejected n-gram range, an empty
\* vocabulary) the run ends with the error: it goes no further, it has
\* executed no INSERT, and the table is what it was before the run.
C11_VectorizeFailure ==
  \A r \in Runs :
    (pc[r] \notin {"idle", "sample", "vectorize"} /\ rows[r] # NoRows
       /\ VectorizeRaises(r)) =>
      /\ pc[r] = "failed"
      /\ groups[r] = <<>>
      /\ attempted[r] = <<>>
      /\ txn[r] = <<>>
      /\ clusters = before[r]

\* C11 witness: a run over a non-empty sample and a non-empty table has
\* failed in fit_transform.
C11_Witness ==
  /\ pc["r1"] = "failed"
  /\ clusters # <<>>
  /\ rows["r1"] # NoRows
  /\ VectorizeRaises("r1")
  /\ groups["r1"] = <<>>

\* --------------------------------------------------- the store, concurrently
\* C12 -- the rows of the table are the committed rows and the rows each
\* open transaction has inserted: at no time does a document id have two
\* of them, so no commit can leave two rows for one id.
C12_OneRowPerDocument ==
  \A r \in Runs :
    /\ DOMAIN txn[r] \intersect DOMAIN clusters = {}
    /\ \A q \in Runs \ {r} : DOMAIN txn[r] \intersect DOMAIN txn[q] = {}

\* C12 witness: two runs that sampled a common document both hold inserted
\* rows in open transactions, next to a row committed earlier.
C12_Witness ==
  /\ pc["r1"] = "persist" /\ pc["r2"] = "persist"
  /\ txn["r1"] # <<>> /\ txn["r2"] # <<>>
  /\ SampleIds(rows["r1"]) \intersect SampleIds(rows["r2"]) # {}
  /\ clusters # <<>>

\* The INSERT run r executed for document d, if it has executed one.
Tried(r, d) == \E n \in 1..Len(attempted[r]) : attempted[r][n][1] = d
AttemptOf(r, d) == attempted[r][CHOOSE n \in 1..Len(attempted[r]) : attempted[r][n][1] = d]
\* The cluster_id run r has computed for the sampled document d.
ComputedCid(r, d) ==
  CidOf(rows[r], groups[r], (CHOOSE n \in 1..Len(rows[r]) : rows[r][n].id = d) - 1)

MemberIds(r, x) == [n \in 1..Len(groups[r][x]) |-> At(ids(r), groups[r][x][n])]
\* The orderings of the members of a group.
Perms(g) == {h \in [1..Len(g) -> Elems(g)] : \A a, b \in 1..Len(g) : a # b => h[a] # h[b]}
Persisting(r) == pc[r] \in {"persist", "report", "done"}

\* C13 -- the cluster_id of a group is "c_" and the 16-character prefix of
\* the SHA-1 of its members' ids joined in group order, leader first; every
\* row the run inserts for a member carries it; two groups (of one run or
\* of two) have the same cluster_id exactly when their ordered id lists
\* are equal, and every other ordering of a group's members has another.
C13_ClusterId ==
  \A r \in Runs : Persisting(r) =>
    \A x \in 1..Len(groups[r]) :
      LET g == groups[r][x]
          cid == ClusterId(ids(r), g)
      IN  /\ cid = <<"c_", Hex16(sha1(MemberIds(r, x)))>>
          /\ \A n \in 1..Len(g) : g[1] <= g[n]
          /\ \A d \in Elems(MemberIds(r, x)) \intersect DOMAIN txn[r] :
               txn[r][d].cluster_id = <<"c_", Hex16(sha1(MemberIds(r, x)))>>
          /\ \A h \in Perms(g) : h # g => ClusterId(ids(r), h) # cid
          /\ \A q \in Runs : Persisting(q) =>
               \A y \in 1..Len(groups[q]) :
                 (ClusterId(ids(q), groups[q][y]) = cid) <=> (MemberIds(q, y) = MemberIds(r, x))

\* C13 witness: two runs hold groups of the same documents in different
\* orders, and one has inserted a row for a member.
C13_Witness ==
  /\ Persisting("r1") /\ Persisting("r2")
  /\ \E x \in 1..Len(groups["r1"]) : \E y \in 1..Len(groups["r2"]) :
       /\ Elems(MemberIds("r1", x)) = Elems(MemberIds("r2", y))
       /\ MemberIds("r1", x) # MemberIds("r2", y)
       /\ Elems(MemberIds("r1", x)) \intersect DOMAIN txn["r1"] # {}

\* ------------------------------------------------------------ the counter
\* The rowcount-1 INSERTs among those run r has executed.
Inserted(r) == {n \in 1..Len(attempted[r]) : attempted[r][n][2] = 1}

\* C14 -- every INSERT a run executes adds 1 to created when the document
\* has no committed row at that moment and 0 when it has one, and the run
\* goes on either way; a run that has committed has executed exactly one
\* INSERT per sampled document, and the links_written it reports is the
\* number of those that found no row.
C14_CreatedCount ==
  /\ [](\A r \in Runs :
          /\ Persisting(r) => created[r] = Cardinality(Inserted(r))
          /\ pc[r] \in {"report", "done"} =>
               /\ Len(attempted[r]) = Len(rows[r])
               /\ {attempted[r][n][1] : n \in 1..Len(attempted[r])} = SampleIds(rows[r])
          /\ (pc[r] = "done" /\ rows[r] # NoRows) =>
               report[r].links_written = Cardinality(Inserted(r)))
  /\ [][\A r \in Runs :
          Len(attempted'[r]) = Len(attempted[r]) + 1 =>
            LET e == attempted'[r][Len(attempted'[r])]
            IN  /\ e[2] = IF e[1] \in DOMAIN clusters THEN 0 ELSE 1
                /\ created'[r] = created[r] + e[2]
                /\ pc'[r] = "persist"]_vars

\* C14 witness: a run has reported after INSERTs that found a row and
\* INSERTs that found none, for a sample with a group of several members.
C14_Witness ==
  /\ pc["r1"] = "done"
  /\ Inserted("r1") # {}
  /\ Cardinality(Inserted("r1")) < Len(attempted["r1"])
  /\ Len(groups["r1"]) < Len(rows["r1"])

\* ------------------------------------------------------ extreme thresholds
\* C15 -- with threshold 0.0 the first iteration of the loop emits the
\* group 0, 1, ..., N-1 and no later iteration emits another.
C15_ThresholdZero ==
  \A r \in Runs :
    (pc[r] = "group" /\ SIM_THRESHOLD = 0 /\ i[r] >= 1) =>
      groups[r] = << [n \in 1..Len(rows[r]) |-> n - 1] >>

\* C15 witness: the loop is over for a sample of three with threshold 0.0
\* in which the leader has similarity 0 with a document.
C15_Witness ==
  /\ Grouped("r1")
  /\ SIM_THRESHOLD = 0
  /\ Len(rows["r1"]) >= 3
  /\ sim["r1"][0][1] = 0
  /\ sim["r1"][1][2] > 0

\* C16 -- with threshold 1.0 two documents are in one group only if their
\* term vectors are identical (as L2-normalised rows); every other group
\* is a singleton.
C16_ThresholdOne ==
  \A r \in Runs :
    (pc[r] = "group" /\ SIM_THRESHOLD = 100) =>
      \A x \in 1..Len(groups[r]) : \A a, b \in Elems(groups[r][x]) :
        Parallel(At(Vectors(r), a), At(Vectors(r), b))

\* C16 witness: with threshold 1.0 the loop has emitted a group of two
\* documents that differ as texts and a singleton whose document shares a
\* term with them.
C16_Witness ==
  /\ Grouped("r1")
  /\ SIM_THRESHOLD = 100
  /\ \E x, y \in 1..Len(groups["r1"]) :
       /\ Len(groups["r1"][x]) = 2
       /\ At(rows["r1"], groups["r1"][x][1]).text # At(rows["r1"], groups["r1"][x][2]).text
       /\ Len(groups["r1"][y]) = 1
       /\ sim["r1"][groups["r1"][x][1]][groups["r1"][y][1]] > 0

\* ------------------------------------------------------------- the sampler
Sampled(r) == pc[r] \notin {"idle", "sample"}

\* C18 -- the sample holds min(limit, number of stored documents) distinct
\* stored documents with their title and text, in non-increasing order of
\* ts, and no stored document left out is newer than a sampled one.
C18_MostRecent ==
  \A r \in Runs : Sampled(r) =>
    LET A == DOMAIN articles_clean
        N == Len(rows[r])
    IN  /\ N = IF CLUSTER_LIMIT < Cardinality(A) THEN CLUSTER_LIMIT ELSE Cardinality(A)
        /\ \A n \in 1..N :
             /\ rows[r][n].id \in A
             /\ rows[r][n].title = articles_clean[rows[r][n].id].title
             /\ rows[r][n].text = articles_clean[rows[r][n].id].text
        /\ \A a, b \in 1..N :
             a < b => /\ rows[r][a].id # rows[r][b].id
                      /\ articles_clean[rows[r][a].id].ts >= articles_clean[rows[r][b].id].ts
        /\ \A d \in A \ SampleIds(rows[r]) : \A n \in 1..N :
             articles_clean[d].ts <= articles_clean[rows[r][n].id].ts

\* C18 witness: a sample of documents of different ts that leaves a stored
\* document out.
C18_Witness ==
  /\ Sampled("r1")
  /\ Len(rows["r1"]) = CLUSTER_LIMIT
  /\ Cardinality(DOMAIN articles_clean) > CLUSTER_LIMIT
  /\ \E a, b \in 1..Len(rows["r1"]) :
       articles_clean[rows["r1"][a].id].ts > articles_clean[rows["r1"][b].id].ts

\* C19 as stated -- two runs that have sampled the same stored documents
\* with the same limit hold the same documents in the same order.
C19_SamplerDeterministic ==
  \A r \in Runs : \A q \in Runs :
    (Sampled(r) /\ Sampled(q)) => rows[r] = rows[q]

\* ------------------------------------------------------- the inserted row
\* The row main() is to insert for the sampled document d of run r.
ExpectedRow(r, d) ==
  LET k == (CHOOSE n \in 1..Len(rows[r]) : rows[r][n].id = d) - 1
      x == CHOOSE y \in 1..Len(groups[r]) : k \in Elems(groups[r][y])
  IN  [cluster_id |-> <<"c_", Hex16(sha1(MemberIds(r, x)))>>,
       title |-> IF articles_clean[d].title = NULL THEN "" ELSE articles_clean[d].title,
       summary |-> "{}"]

\* C20 -- every row a run inserts, in its open transaction and once
\* committed, is a row for a sampled document with the cluster_id of the
\* document's group, the document's title ("" for a missing one) and the
\* summary {}, whatever the summaries of the rows already stored.
C20_InsertedRow ==
  \A r \in Runs : Persisting(r) =>
    /\ \A d \in DOMAIN txn[r] : d \in SampleIds(rows[r]) /\ txn[r][d] = ExpectedRow(r, d)
    /\ pc[r] \in {"report", "done"} =>
         \A d \in DOMAIN clusters \ DOMAIN before[r] :
           d \in SampleIds(rows[r]) /\ clusters[d] = ExpectedRow(r, d)

\* C20 witness: a completed run has inserted the row of a document without
\* title, grouped with a document whose stored row has been summarized.
C20_Witness ==
  /\ pc["r1"] = "done"
  /\ \E d \in DOMAIN clusters \ DOMAIN before["r1"] : \E e \in DOMAIN before["r1"] :
       /\ articles_clean[d].title = NULL
       /\ clusters[d].title = ""
       /\ clusters[e].summary # EmptyJson
       /\ \E x \in 1..Len(groups["r1"]) : {d, e} \subseteq Elems(MemberIds("r1", x))

\* ------------------------------------------------------------ the schedule
\* The stages of main() in the order it passes them.
Stage(p) ==
  CASE p = "idle" -> 0 [] p = "sample" -> 1 [] p = "vectorize" -> 2
    [] p = "similarity" -> 3 [] p = "group" -> 4 [] p = "persist" -> 5
    [] p = "report" -> 6 [] p = "done" -> 7 [] p = "failed" -> 7

\* C21 -- in a DAG run, cluster is scheduled and main() runs only after
\* extract has succeeded, summarize only after cluster has succeeded;
\* cluster has at most two tries and main() is started at most once per
\* try; inside a run main() only moves forward, it never goes back to a
\* stage it has left.
C21_Schedule ==
  /\ [](/\ dag[Task("cluster")].state # "none" => dag[Task("extract")].state = "success"
        /\ dag[Task("summarize")].state # "none" => dag[Task("cluster")].state = "success"
        /\ \A r \in Runs : pc[r] # "idle" =>
             /\ dag[Task("extract")].state = "success"
             /\ dag[Task("cluster")].state = "running"
        /\ dag[Task("cluster")].try <= 2
        /\ starts <= dag[Task("cluster")].try)
  /\ [][\A r \in Runs :
          /\ pc'[r] # pc[r] => Stage(pc'[r]) > Stage(pc[r]) \/ pc'[r] = "idle"
          /\ (pc[r] # "idle" /\ pc'[r] # "idle") => Len(attempted'[r]) >= Len(attempted[r])]_vars

\* C21 witness: cluster has failed twice, its second try after a retry, and
\* summarize has not been scheduled.
C21_Witness ==
  /\ dag[Task("cluster")] = [state |-> "failed", try |-> 2]
  /\ starts = 2
  /\ dag[Task("summarize")].state = "none"
  /\ prev.outcome = "failed"

\* ------------------------------------------------- the similarity matrix
ZeroVector(r, a) == DOMAIN At(Vectors(r), a) = {}

\* C22 as stated: the matrix the grouper uses is symmetric, every document
\* (one with an all-zero vector included) has similarity exactly 1 with
\* itself, and a pair with an all-zero vector has similarity 0.
C22_UnitDiagonal ==
  \A r \in Runs :
    pc[r] = "group" =>
      \A a, b \in Range(0, Len(rows[r])) :
        /\ sim[r][a][b] = sim[r][b][a]
        /\ sim[r][a][a] = 100
        /\ (a # b /\ (ZeroVector(r, a) \/ ZeroVector(r, b))) => sim[r][a][b] = 0

\* C22, amended: the matrix the grouper uses is symmetric, every entry is a
\* number between 0 and 1 (never NaN), a document with a non-zero vector
\* has similarity 1 up to rounding with itself, a document with an all-zero
\* vector has similarity 0 with itself, and a pair with an all-zero
\* vector has similarity 0.
C22_SimilarityMatrix ==
  \A r \in Runs :
    pc[r] = "group" =>
      /\ DOMAIN sim[r] = Range(0, Len(rows[r]))
      /\ \A a, b \in Range(0, Len(rows[r])) :
           /\ sim[r][a][b] \in 0..100
           /\ sim[r][a][b] = sim[r][b][a]
           /\ sim[r][a][a] \in (IF ZeroVector(r, a) THEN {0} ELSE UnitLevels)
           /\ (ZeroVector(r, a) \/ ZeroVector(r, b)) => sim[r][a][b] = 0

\* C22 witness: the matrix of a sample that holds a document without terms
\* and two documents with terms that are similar to each other.
C22_Witness ==
  /\ pc["r1"] = "group"
  /\ \E a, b, c \in Range(0, Len(rows["r1"])) :
       /\ ZeroVector("r1", a)
       /\ sim["r1"][a][a] = 0
       /\ ~ZeroVector("r1", b)
       /\ b # c
       /\ sim["r1"][b][c] > 0

\* ------------------------------------------- documents without any term
\* C23 as stated: with a valid n-gram range, the run of a non-empty sample
\* never ends at the vectorization step, whatever the documents are (all of
\* them may be empty): it goes on to grouping and persistence.
C23_EmptyDocuments ==
  \A r \in Runs :
    (rows[r] # NoRows /\ TFIDF_NGRAM[1] <= TFIDF_NGRAM[2]) => pc[r] # "failed"

\* --------------------------------------------- the order of the sample
\* The groups of a run as sets of documents, and the similarity of two
\* documents in a run.
DocGroups(r) ==
  {{At(ids(r), groups[r][x][n]) : n \in 1..Len(groups[r][x])} : x \in 1..Len(groups[r])}
IndexOf(r, d) == CHOOSE a \in Range(0, Len(rows[r])) : At(ids(r), a) = d
DocSim(r, d, e) == sim[r][IndexOf(r, d)][IndexOf(r, e)]

\* The example: documents A, B, C (1, 2, 3) with sim(A,B) = 0.6,
\* sim(A,C) = 0.3, sim(B,C) = 0.7 at threshold 0.5, in the order A, B, C
\* for r1 and C, B, A for r2.
C24_Example ==
  /\ SIM_THRESHOLD = 50
  /\ ids("r1") = <<1, 2, 3>> /\ ids("r2") = <<3, 2, 1>>
  /\ DocSim("r1", 1, 2) = 60 /\ DocSim("r1", 1, 3) = 30 /\ DocSim("r1", 2, 3) = 70

\* C24: the partition depends on the order of the sample.  On the example
\* the order A, B, C gives {A,B},{C} and the order C, B, A gives {C,B},{A};
\* and two orders of the same documents give different partitions only
\* if "clears the threshold" is not transitive on them.
C24_OrderMatters ==
  (Grouped("r1") /\ Grouped("r2")) =>
    /\ \A d, e \in SampleIds(rows["r1"]) : DocSim("r1", d, e) = DocSim("r2", d, e)
    /\ C24_Example => /\ DocGroups("r1") = {{1, 2}, {3}}
                      /\ DocGroups("r2") = {{3, 2}, {1}}
    /\ DocGroups("r1") # DocGroups("r2") =>
         \E d, e, f \in SampleIds(rows["r1"]) :
           /\ d # e /\ e # f /\ d # f
           /\ DocSim("r1", d, e) >= SIM_THRESHOLD
           /\ DocSim("r1", e, f) >= SIM_THRESHOLD
           /\ DocSim("r1", d, f) < SIM_THRESHOLD

\* C24 witness: both orders of the example have been grouped and the two
\* partitions differ.
C24_Witness ==
  /\ Grouped("r1") /\ Grouped("r2")
  /\ C24_Example
  /\ DocGroups("r1") # DocGroups("r2")

\* ------------------------------------------------------------- the report
RECURSIVE Total(_)
Total(s) == IF s = <<>> THEN 0 ELSE Head(s) + Total(Tail(s))
GroupSizes(r) == [x \in 1..Len(groups[r]) |-> Len(groups[r][x])]

\* C25: the report of a run agrees with its groups: groups is their number,
\* largest_group the largest size, singleton_groups the number of groups
\* of one document, the sizes add up to the size of the sample, and
\* median_group is the size of a group such that at least half of the
\* groups are no larger and at least half are no smaller; and the step
\* that computes the report leaves both tables as they are.
C25_Report ==
  /\ [](\A r \in Runs :
          (pc[r] = "done" /\ rows[r] # NoRows) =>
            LET sz == GroupSizes(r)
                n == Len(sz)
                med == report[r].median_group
            IN  /\ report[r].groups = n
                /\ n > 0
                /\ \E x \in 1..n : sz[x] = report[r].largest_group
                /\ \A x \in 1..n : sz[x] <= report[r].largest_group
                /\ report[r].singleton_groups = Cardinality({x \in 1..n : sz[x] = 1})
                /\ Total(sz) = Len(rows[r])
                /\ \E x \in 1..n : sz[x] = med
                /\ 2 * Cardinality({x \in 1..n : sz[x] <= med}) >= n
                /\ 2 * Cardinality({x \in 1..n : sz[x] >= med}) >= n)
  /\ [][\A r \in Runs :
          (pc[r] = "report" /\ pc'[r] = "done") =>
            /\ clusters' = clusters
            /\ articles_clean' = articles_clean
            /\ txn' = txn]_vars

\* C25 witness: a finished run whose report tells of a group of two
\* documents and a singleton, with rows written.
C25_Witness ==
  /\ pc["r1"] = "done"
  /\ Len(rows["r1"]) = 3
  /\ report["r1"].groups = 2
  /\ report["r1"].largest_group = 2
  /\ report["r1"].median_group = 1
  /\ report["r1"].singleton_groups = 1
  /\ report["r1"].links_written > 0
  /\ clusters # <<>>

\* ------------------------------------------------ summaries of a cluster
\* C26: at every moment, whatever the interleaving of runs (aborted and
\* retried ones included) and summarizer updates, the stored rows with the
\* same cluster_id carry the same summary; and no step adds a row whose
\* cluster_id is that of a row whose summary has been populated.
C26_OneSummaryPerCluster ==
  /\ [](\A d, e \in DOMAIN clusters :
          clusters[d].cluster_id = clusters[e].cluster_id =>
            clusters[d].summary = clusters[e].summary)
  /\ [][\A d \in DOMAIN clusters' \ DOMAIN clusters : \A e \in DOMAIN clusters :
          clusters[e].summary # EmptyJson =>
            clusters'[d].cluster_id # clusters[e].cluster_id]_vars

\* C26 witness: a cluster of two rows has its summary populated, and a
\* run that was active at the same time has committed a row of its own
\* next to it, with the placeholder.
C26_Witness ==
  /\ \E d, e \in DOMAIN clusters :
       /\ d # e
       /\ clusters[d].cluster_id = clusters[e].cluster_id
       /\ clusters[d].summary # EmptyJson
  /\ \E r \in Runs : \E n \in 1..Len(attempted[r]) :
       /\ pc[r] = "done"
       /\ attempted[r][n][2] = 1
       /\ clusters[attempted[r][n][1]].summary = EmptyJson
  /\ \E r \in Runs : \E n \in 1..Len(attempted[r]) :
       /\ pc[r] \in {"report", "done"}
       /\ attempted[r][n][2] = 1
       /\ clusters[attempted[r][n][1]].summary # EmptyJson

\* ------------------------------------------------ two runs side by side
\* The document of the INSERT run r executes next, and whether that INSERT
\* waits for the open transaction of run q.
NextDoc(r) == At(ids(r), groups[r][pos[r].g][pos[r].k])
WaitsFor(r, q) ==
  /\ pc[r] = "persist"
  /\ pos[r].g <= Len(groups[r])
  /\ NextDoc(r) \in DOMAIN txn[q]

\* C27 as stated: two concurrent runs both run to completion; at no moment
\* does each of them wait for a row the other has inserted (a wait that
\* ends only when the server aborts one of the two, or never).
C27_BothComplete ==
  \A r, q \in Runs : r # q => ~(WaitsFor(r, q) /\ WaitsFor(q, r))

\* --------------------------------------------- leaders and their groups
Leaders(r) == {groups[r][x][1] : x \in 1..Len(groups[r])}

\* C28: assignment is first-fit over leaders.  A document of an emitted
\* group (its leader included) is below the threshold with the leader of
\* every group emitted earlier, so two leaders are below the threshold
\* with each other, and a member that is not the leader is in the group of
\* the first leader that clears the threshold with it.
C28_FirstFit ==
  \A r \in Runs : pc[r] = "group" =>
    /\ \A x, y \in 1..Len(groups[r]) : y < x =>
         \A n \in 1..Len(groups[r][x]) :
           sim[r][groups[r][y][1]][groups[r][x][n]] < SIM_THRESHOLD
    /\ \A l, k \in Leaders(r) : l # k => sim[r][l][k] < SIM_THRESHOLD
    /\ \A x \in 1..Len(groups[r]) : \A n \in 2..Len(groups[r][x]) :
         \A l \in Leaders(r) :
           sim[r][l][groups[r][x][n]] >= SIM_THRESHOLD => groups[r][x][1] <= l

\* C28 witness: document 2 clears the threshold with the leaders 0 and 1,
\* which are below the threshold with each other; it is in the group of 0.
C28_Witness ==
  /\ Grouped("r1")
  /\ Len(rows["r1"]) = 3
  /\ Leaders("r1") = {0, 1}
  /\ SIM_THRESHOLD > 0
  /\ sim["r1"][0][2] >= SIM_THRESHOLD
  /\ sim["r1"][1][2] > sim["r1"][0][2]
  /\ 2 \in Elems(groups["r1"][1])

\* C29: the order of emission is canonical.  Inside every group the
\* indices increase strictly, so the leader is the smallest; the leaders
\* increase strictly from group to group; and the first group is led by
\* index 0, the most recent document.
C29_CanonicalOrder ==
  \A r \in Runs : pc[r] = "group" =>
    /\ \A x \in 1..Len(groups[r]) :
         /\ \A n, k \in 1..Len(groups[r][x]) : n < k => groups[r][x][n] < groups[r][x][k]
         /\ \A n \in 1..Len(groups[r][x]) : groups[r][x][1] <= groups[r][x][n]
    /\ \A x, y \in 1..Len(groups[r]) : x < y => groups[r][x][1] < groups[r][y][1]
    /\ i[r] > 0 => (groups[r] # <<>> /\ groups[r][1][1] = 0)

\* C29 witness: three documents, the second one alone in the second group
\* between the two members of the first.
C29_Witness ==
  /\ Grouped("r1")
  /\ groups["r1"] = << <<0, 2>>, <<1>> >>

\* ------------------------------------------ documents without any term
\* C30: with a threshold above 0, a document whose vector is all-zero is
\* alone in its group: it joins no leader and, leading, admits nobody, so
\* two documents without terms are never in one group.
C30_EmptyAlone ==
  \A r \in Runs :
    (pc[r] = "group" /\ SIM_THRESHOLD > 0) =>
      /\ \A x \in 1..Len(groups[r]) : \A n \in 1..Len(groups[r][x]) :
           ZeroVector(r, groups[r][x][n]) => Len(groups[r][x]) = 1
      /\ \A a \in Range(0, i[r]) :
           ZeroVector(r, a) => \E x \in 1..Len(groups[r]) : groups[r][x] = <<a>>

\* C30 witness: a sample with two documents without terms and one with
\* terms, grouped into three groups.
C30_Witness ==
  /\ Grouped("r1")
  /\ SIM_THRESHOLD > 0
  /\ \E a, b, c \in Range(0, Len(rows["r1"])) :
       /\ a # b
       /\ ZeroVector("r1", a) /\ ZeroVector("r1", b) /\ ~ZeroVector("r1", c)
  /\ Len(groups["r1"]) = 3
====
